---- MODULE Spec2Model ----
(***************************************************************************)
(* A model of src/transaction-collection.js: the Transaction tree, the     *)
(* recurrence expansion with its cache, the gather pass, valueOnDate,      *)
(* generatePath, the key point detector and Scenario.                      *)
(*                                                                         *)
(* Dates are whole days, counted from 1 January of a non-leap year         *)
(* (day 0); time zones are outside the model.  Amounts and growth rates    *)
(* are exact rationals [n, d] in lowest terms; the rounding of IEEE-754    *)
(* doubles is outside the model.  Objects compared by reference in the     *)
(* source (Transaction, Bounds) live in heaps and are named by their       *)
(* index; every assignment of a Date installs a new Date object, which the *)
(* model holds by value.                                                   *)
(***************************************************************************)
EXTENDS Integers, Sequences, FiniteSets, TLC

VARIABLES
    txns,       \* heap of Transaction objects, indexed by identity
    bounds,     \* heap of Bounds objects, indexed by identity
    scenarios,  \* the base tree's scenarios (Transaction#scenarios of node 1)
    path,       \* a path handed to the key point detector
    ret         \* what the last call returned

vars == <<txns, bounds, scenarios, path, ret>>

-----------------------------------------------------------------------------
(* Bounds of the model *)

\* one more than the number of non-root nodes a tree may hold
MaxNodes == 3
\* last day of the window of the tree specifications
MaxDay == 3
\* last day a definition may start on in SpecExpand
MaxStart == 2
\* last day of the expansion ranges in SpecExpand
MaxSpan == 70
\* last day of the expansion ranges of growing definitions in SpecExpand
MaxGrowSpan == 3
\* last day of the definitions and windows of SpecCache
MaxCacheDay == 2
\* number of transactions of the base tree of SpecScenario
MaxBaseTxns == 2
\* number of transactions cloned into the scenario of SpecScenario
MaxClones == 1
\* number of transaction objects SpecScenario constructs
MaxObjects == 6
\* number of points of a path handed to the key point detector
MaxPathLen == 6
\* largest absolute y value of such a path
MaxY == 1
\* last day of the transactions and windows of SpecPath
MaxPathDay == 10
\* number of transactions of the tree of SpecPath
MaxPathTxns == 1

-----------------------------------------------------------------------------
(* Numbers: JavaScript numbers as exact rationals, and null *)

\* null in a numeric field (amount, growth)
null == [n |-> 0, d |-> 0]

\* null in a date field (startDate, endDate)
NullDate == -1

abs(a) == IF a < 0 THEN -a ELSE a

RECURSIVE gcd(_, _)
gcd(a, b) == IF b = 0 THEN a ELSE gcd(b, a % b)

\* the rational n/d in lowest terms with a positive denominator (d # 0)
ratio(n, d) ==
    LET g == gcd(abs(n), abs(d))
        s == IF d < 0 THEN -1 ELSE 1
    IN  [n |-> s * (n \div g), d |-> s * (d \div g)]

Number(k) == [n |-> k, d |-> 1]

\* ToNumber: null converts to +0
toNumber(a) == IF a.d = 0 THEN Number(0) ELSE a

plus(a, b) ==
    LET x == toNumber(a)
        y == toNumber(b)
    IN  ratio(x.n * y.d + y.n * x.d, x.d * y.d)

times(a, b) ==
    LET x == toNumber(a)
        y == toNumber(b)
    IN  ratio(x.n * y.n, x.d * y.d)

minus(a, b) == plus(a, times(Number(-1), b))

less(a, b) ==
    LET x == toNumber(a)
        y == toNumber(b)
    IN  x.n * y.d < y.n * x.d

\* a value is truthy unless it is null or 0
truthy(a) == a # null /\ a # Number(0)

\* _.sum(collection, iteratee): result += +iteratee(value) || 0
RECURSIVE sum(_)
sum(amounts) ==
    IF amounts = <<>> THEN Number(0)
    ELSE plus(Head(amounts), sum(Tail(amounts)))

-----------------------------------------------------------------------------
(* The calendar of moment: months of a non-leap year, day 0 = 1 January *)

MonthLengths == <<31, 28, 31, 30, 31, 30, 31, 31, 30, 31, 30, 31>>

RECURSIVE monthStart(_)
monthStart(m) == IF m = 1 THEN 0 ELSE monthStart(m - 1) + MonthLengths[m - 1]

monthOf(day) == CHOOSE m \in 1..12 : monthStart(m) <= day /\ day < monthStart(m + 1)

\* moment#add(1, 'months'): same day of the next month, clamped to its length
addMonth(day) ==
    LET m == monthOf(day)
        dom == day - monthStart(m)
    IN  IF m = 12 THEN day + 31
        ELSE monthStart(m + 1)
             + (IF dom < MonthLengths[m + 1] THEN dom ELSE MonthLengths[m + 1] - 1)

\* a variant of byDays that leaves out a date falling on the end of the range
RECURSIVE byDaysExclusive(_, _, _)
byDaysExclusive(current, end, n) ==
    IF current < end THEN <<current>> \o byDaysExclusive(current + n, end, n)
    ELSE <<>>

\* DateRange#by(interval string): current = start; while the range contains
\* current (inclusive), yield it and add one interval to it
RECURSIVE byDays(_, _, _)
byDays(current, end, n) ==
    IF current <= end THEN <<current>> \o byDays(current + n, end, n) ELSE <<>>

RECURSIVE byMonths(_, _)
byMonths(current, end) ==
    IF current <= end THEN <<current>> \o byMonths(addMonth(current), end) ELSE <<>>

\* DateRange#by(range): l = floor(this / interval); for i in 0..l yield
\* start + interval * i
byRange(start, end, interval) ==
    LET l == (end - start) \div interval
    IN  IF l < 0 THEN <<>> ELSE [i \in 1..(l + 1) |-> start + interval * (i - 1)]

Frequencies == {"none", "month", "week", "biweek", "day"}

generateRepeatDates(frequency, start, end) ==
    CASE frequency = "month" -> byMonths(start, end)
      [] frequency = "week" -> byDays(start, end, 7)
      [] frequency = "biweek" -> byRange(start, end, 14)
      [] frequency = "day" -> byDays(start, end, 1)
      [] OTHER -> <<>>

-----------------------------------------------------------------------------
(* Transaction *)

\* the recurrence cache before the first expansion (transactionSeries undefined)
NoTransactionSeries ==
    [set |-> FALSE, txns |-> <<>>, amount |-> null, growth |-> null,
     frequency |-> "none", startDate |-> NullDate, bounds |-> 0]

\* new Transaction(blob); uuid is what generateUUID returns.  A blob is any
\* record with the fields read here; an absent field is null (series: 0).
Transaction(blob, uuid) ==
    [depth |-> -1,
     growth |-> IF truthy(blob.growth) THEN blob.growth ELSE null,
     description |-> blob.description,
     amount |-> IF truthy(blob.amount) THEN blob.amount ELSE null,
     startDate |-> blob.startDate,
     endDate |-> blob.endDate,
     frequency |-> blob.frequency,
     series |-> IF blob.series # 0 THEN blob.series ELSE uuid,
     children |-> <<>>,
     parentTransaction |-> 0,
     parent |-> 0,          \* never assigned: undefined
     accumulator |-> <<>>,
     transactionSeries |-> NoTransactionSeries]

\* generateUUID: a string no other series holds; the identity of the object
\* being constructed is one
generateUUID(h) == Len(h) + 1

\* a definition object as callers write it
Blob(description, amount, growth, frequency, startDate, endDate) ==
    [description |-> description, amount |-> amount, growth |-> growth,
     frequency |-> frequency, startDate |-> startDate, endDate |-> endDate,
     series |-> 0, children |-> <<>>]

\* an element of a gathered list: transaction object id as it is read by the
\* consumers (series, startDate, amount); txn is the node it comes from
Occurrence(id, series, startDate, amount) ==
    [txn |-> id, series |-> series, startDate |-> startDate, amount |-> amount]

\* a variant of growthLoop that grows every clone from the amount of the
\* first one, without compounding
growthLoopFromFirst(repeatTxns, i, growth) ==
    [k \in 1..Len(repeatTxns) |->
        IF k < i THEN repeatTxns[k]
        ELSE [repeatTxns[k] EXCEPT !.amount =
                times(repeatTxns[1].amount,
                      plus(Number(1), times(growth, ratio(1, 100))))]]

\* lines 355-357: for (i = 1; i < repeatTxns.length; i++) amount of clone i
\* = amount of clone i - 1 times (1 + growth / 100); i counts from 2 here
RECURSIVE growthLoop(_, _, _)
growthLoop(repeatTxns, i, growth) ==
    IF i > Len(repeatTxns) THEN repeatTxns
    ELSE growthLoop(
            [repeatTxns EXCEPT ![i].amount =
                times(repeatTxns[i - 1].amount,
                      plus(Number(1), times(growth, ratio(1, 100))))],
            i + 1, growth)

\* lines 353-358: the growth loop runs unless growth is 0
growTransactions(repeatTxns, growth) ==
    IF growth # Number(0) \/ truthy(growth)
    THEN growthLoop(repeatTxns, 2, growth)
    ELSE repeatTxns

\* lines 343-351: one clone of the definition per generated date
cloneTransactions(txn, id, dates) ==
    [i \in 1..Len(dates) |-> Occurrence(id, txn.series, dates[i], txn.amount)]

\* lines 341-358: the uncached expansion of node id over [txn.startDate, end]
repeatTransactions(txn, id, end) ==
    growTransactions(
        cloneTransactions(txn, id,
            generateRepeatDates(txn.frequency, txn.startDate, end)),
        txn.growth)

\* lines 325-326: the end of the expansion range
expansionEnd(txn, bnd) ==
    IF txn.endDate = NullDate THEN bnd.endDate ELSE txn.endDate

\* lines 331-339: the cache holds a list for this fingerprint
cacheHit(txn, bnd) ==
    LET ts == txn.transactionSeries
    IN  /\ ts.set
        /\ ts.amount = txn.amount
        /\ ts.growth = txn.growth
        /\ ts.frequency = txn.frequency
        /\ ts.startDate = txn.startDate
        /\ ts.bounds = bnd.ref

\* initRepeatTransactions(this = txn = h[id], bounds): the heap after the call
\* and what it returns (single: the transaction itself, not an array).  bnd is
\* the Bounds object: its identity ref and its endDate as read now.
initRepeatTransactions(h, id, bnd) ==
    LET txn == h[id]
    IN  IF txn.frequency = "none"
        THEN [h |-> h, single |-> TRUE,
              txns |-> <<Occurrence(id, txn.series, txn.startDate, txn.amount)>>]
        ELSE IF cacheHit(txn, bnd)
        THEN [h |-> h, single |-> FALSE, txns |-> txn.transactionSeries.txns]
        ELSE LET repeatTxns == repeatTransactions(txn, id, expansionEnd(txn, bnd))
             IN  [h |-> [h EXCEPT ![id].transactionSeries =
                            [set |-> TRUE, txns |-> repeatTxns,
                             amount |-> txn.amount, growth |-> txn.growth,
                             frequency |-> txn.frequency,
                             startDate |-> txn.startDate, bounds |-> bnd.ref]],
                  single |-> FALSE, txns |-> repeatTxns]

\* a Bounds object of the heap as the callee reads it
BoundsAt(bs, b) == [ref |-> b, startDate |-> bs[b].startDate, endDate |-> bs[b].endDate]

\* no call has returned since the last change
NoRet == [op |-> "none"]

-----------------------------------------------------------------------------
(* The transaction tree: addChild, addChildren, setAmount, getAmount *)

\* the amounts of the nodes ids, in order
amountsOf(h, ids) == [i \in 1..Len(ids) |-> h[ids[i]].amount]

\* getAmount on node id: the heap after the call (what it returns is the
\* amount of id in that heap).  A node with children rewrites its amount to
\* the sum of its children's getAmount().
RECURSIVE getAmount(_, _)
RECURSIVE getAmounts(_, _)
getAmounts(h, ids) ==
    IF ids = <<>> THEN h ELSE getAmounts(getAmount(h, Head(ids)), Tail(ids))

getAmount(h, id) ==
    IF Len(h[id].children) > 0
    THEN LET h1 == getAmounts(h, h[id].children)
         IN  [h1 EXCEPT ![id].amount = sum(amountsOf(h1, h[id].children))]
    ELSE h

\* setAmount(amount) on node id.  No Transaction has a field named parent
\* (the constructor sets parentTransaction), so this.parent reads undefined
\* (0 here) on every node.
RECURSIVE setAmount(_, _, _)
setAmount(h, id, amount) ==
    LET h1 == IF Len(h[id].children) > 0
              THEN LET g == getAmounts(h, h[id].children)
                   IN  [g EXCEPT ![id].amount = sum(amountsOf(g, h[id].children))]
              ELSE [h EXCEPT ![id].amount = amount]
    IN  IF h1[id].parent # 0 THEN setAmount(h1, h1[id].parent, null) ELSE h1

\* addChild(blob) on node id: blob.constructor is a function, never the
\* string 'Transaction', so a new Transaction is always constructed from the
\* blob's fields.  The new node is the last one of the heap returned.
addChild(h, id, blob) ==
    LET newChild == [Transaction(blob, generateUUID(h)) EXCEPT
                        !.parentTransaction = id,
                        !.depth = h[id].depth + 1]
        h1 == Append(h, newChild)
        h2 == [h1 EXCEPT ![id].children = Append(@, Len(h1))]
    IN  setAmount(h2, id, null)

\* addChildren(blobs) on node id
RECURSIVE addChildren(_, _, _)
addChildren(h, id, blobs) ==
    IF blobs = <<>> THEN h
    ELSE LET blob == Head(blobs)
             h1 == addChild(h, id, blob)
             newChild == Len(h1)
             h2 == IF Len(blob.children) > 0
                   THEN addChildren(h1, newChild, blob.children)
                   ELSE h1
         IN  addChildren(h2, id, Tail(blobs))

\* the number of Transaction objects blobs turn into
RECURSIVE blobCount(_)
blobCount(blobs) ==
    IF blobs = <<>> THEN 0
    ELSE 1 + blobCount(Head(blobs).children) + blobCount(Tail(blobs))

-----------------------------------------------------------------------------
(* The gather pass *)

\* what a call returns that returns nothing
Undefined == [kind |-> "undefined", txns |-> <<>>]

\* gatherTransactions(bounds) on node id: the heap after the call and what it
\* returns (kind: an array, the transaction itself, or undefined)
RECURSIVE gatherTransactions(_, _, _)
RECURSIVE gatherChildren(_, _, _)
gatherChildren(h, ids, bnd) ==
    IF ids = <<>> THEN h
    ELSE gatherChildren(gatherTransactions(h, Head(ids), bnd).h, Tail(ids), bnd)

\* a variant of gatherTransactions in which no accumulator is ever emptied
gatherTransactionsLeaking(h, id, bnd) ==
    LET this == h[id]
        p == this.parentTransaction
    IN  CASE Len(this.children) = 0 /\ p # 0 ->
               LET r == initRepeatTransactions(h, id, bnd)
               IN  [h |-> [r.h EXCEPT ![p].accumulator = @ \o r.txns],
                    ret |-> Undefined]
          [] Len(this.children) > 0 /\ p # 0 ->
               LET h1 == gatherChildren(h, this.children, bnd)
                   r == initRepeatTransactions(h1, id, bnd)
               IN  [h |-> [r.h EXCEPT ![p].accumulator = @ \o r.txns],
                    ret |-> Undefined]
          [] p = 0 /\ Len(this.children) > 0 ->
               LET h1 == gatherChildren(h, this.children, bnd)
               IN  [h |-> h1, ret |-> [kind |-> "array", txns |-> h1[id].accumulator]]
          [] OTHER ->
               [h |-> h,
                ret |-> [kind |-> "transaction",
                         txns |-> <<Occurrence(id, this.series, this.startDate,
                                               this.amount)>>]]

gatherTransactions(h, id, bnd) ==
    LET this == h[id]
        p == this.parentTransaction
    IN  CASE Len(this.children) = 0 /\ p # 0 ->
               \* leaf case
               LET r == initRepeatTransactions(h, id, bnd)
               IN  [h |-> [r.h EXCEPT ![p].accumulator = @ \o r.txns],
                    ret |-> Undefined]
          [] Len(this.children) > 0 /\ p # 0 ->
               \* branch case
               LET h1 == gatherChildren(h, this.children, bnd)
                   r == initRepeatTransactions(h1, id, bnd)
               IN  [h |-> [r.h EXCEPT ![p].accumulator = @ \o r.txns,
                                      ![id].accumulator = <<>>],
                    ret |-> Undefined]
          [] p = 0 /\ Len(this.children) > 0 ->
               \* root case
               LET h1 == gatherChildren([h EXCEPT ![id].accumulator = <<>>],
                                        this.children, bnd)
               IN  [h |-> h1, ret |-> [kind |-> "array", txns |-> h1[id].accumulator]]
          [] OTHER ->
               \* floater case
               IF this.frequency # "none"
               THEN LET r == initRepeatTransactions(h, id, bnd)
                    IN  [h |-> r.h, ret |-> [kind |-> "array", txns |-> r.txns]]
               ELSE [h |-> h,
                     ret |-> [kind |-> "transaction",
                              txns |-> <<Occurrence(id, this.series, this.startDate,
                                                    this.amount)>>]]

-----------------------------------------------------------------------------
(* valueOnDate and generatePath *)

\* the distinct days of a set, ascending (sortBy of the grouped pairs)
RECURSIVE sortDays(_)
sortDays(days) ==
    IF days = {} THEN <<>>
    ELSE LET first == CHOOSE d \in days : \A e \in days : d <= e
         IN  <<first>> \o sortDays(days \ {first})

\* the amounts of a sequence of gathered transactions
amounts(gathered) == [i \in 1..Len(gathered) |-> gathered[i].amount]

\* groupBy day, pairs, sortBy date, map to {date, value: sum of the amounts}
dailyTotals(gathered) ==
    LET days == sortDays({gathered[i].startDate : i \in 1..Len(gathered)})
    IN  [i \in 1..Len(days) |->
            [date |-> days[i],
             value |-> sum(amounts(SelectSeq(gathered,
                                   LAMBDA t : t.startDate = days[i])))]]

\* what a call returns that throws
TypeError == [kind |-> "TypeError", txns |-> <<>>]

\* lines 415-437: the value of what a gather pass returned.  Handed the
\* transaction itself (floater case) groupBy walks the values of its
\* properties and line 418 reads startDate of null: the call throws.
\* Handed undefined it groups nothing.
valueOfGathered(g) ==
    IF g.kind = "array"
    THEN LET transactions == dailyTotals(g.txns)
         IN  sum([i \in 1..Len(transactions) |-> transactions[i].value])
    ELSE IF g.kind = "transaction" THEN TypeError
    ELSE Number(0)

\* valueOnDate(date, bounds) on node id, from line 415 on: bnd is the bounds
\* object after line 414 has set its endDate
valueOnDate(h, id, bnd) ==
    LET g == gatherTransactions(h, id, bnd)
    IN  [h |-> g.h, value |-> valueOfGathered(g.ret)]

\* lines 548-556: the running balance over the daily totals
RECURSIVE cumulate(_, _, _)
cumulate(acc, transactions, start) ==
    IF transactions = <<>> THEN acc
    ELSE LET k == Head(transactions)
         IN  cumulate(
                Append(acc,
                    [value |-> times(Number(-1), k.value),
                     d |-> k.date,
                     x |-> k.date - start,
                     y |-> plus(IF Len(acc) > 0 THEN acc[Len(acc)].y ELSE Number(0),
                                k.value)]),
                Tail(transactions), start)

\* a variant of padRight that never adds a point
padRightNever(transactions, bnd) == transactions

\* lines 561-568: a point at the right edge when the last point is before it
padRight(transactions, bnd) ==
    LET last == transactions[Len(transactions)]
    IN  IF last.d < bnd.endDate
        THEN Append(transactions,
                [value |-> last.value, d |-> bnd.endDate,
                 x |-> bnd.endDate - bnd.startDate, y |-> last.y])
        ELSE transactions

\* _.findIndex, counted from 1; 0 when there is none
findIndex(transactions, start) ==
    IF \E i \in 1..Len(transactions) : transactions[i].d >= start
    THEN CHOOSE i \in 1..Len(transactions) :
            /\ transactions[i].d >= start
            /\ \A j \in 1..(i - 1) : transactions[j].d < start
    ELSE 0

\* lines 570-588: the start point, and the points before the window dropped.
\* startValue has no value field; null stands for it.
clipLeft(transactions, bnd) ==
    LET startValueIdx == findIndex(transactions, bnd.startDate)
        startValue == [value |-> null, d |-> bnd.startDate, x |-> 0,
                       y |-> IF startValueIdx > 1 THEN transactions[startValueIdx].y
                             ELSE Number(0)]
    IN  <<startValue>> \o
        (IF startValueIdx > 1
         THEN SubSeq(transactions, startValueIdx, Len(transactions))
         ELSE transactions)

\* lines 529-588: the path of a non-empty gathered list
pathOf(gathered, bnd) ==
    clipLeft(padRight(cumulate(<<>>, dailyTotals(gathered), bnd.startDate), bnd), bnd)

-----------------------------------------------------------------------------
(* The key point detector *)

\* getInflectionPoints: the loop from index i on (i counts from 1: the
\* source's i is i - 1).  start is the moment the loop adds to in place.
RECURSIVE inflectionLoop(_, _, _, _)
inflectionLoop(pth, i, start, accInf) ==
    IF i > Len(pth) THEN accInf
    ELSE LET deltaPrime == minus(pth[i].y, pth[i - 1].y)
             deltaDPrime == minus(pth[i - 1].y, pth[i - 2].y)
             added == start + pth[i - 1].x
             point(type) == [count |-> i - 2, x |-> pth[i - 1].x, date |-> added,
                             value |-> pth[i - 1].y, type |-> type]
         IN  inflectionLoop(pth, i + 1, added,
                IF less(deltaPrime, Number(0)) /\ less(Number(0), deltaDPrime)
                THEN Append(accInf, point("max"))
                ELSE IF less(Number(0), deltaPrime) /\ less(deltaDPrime, Number(0))
                THEN Append(accInf, point("min"))
                ELSE accInf)

getInflectionPoints(pth, bnd) == inflectionLoop(pth, 3, bnd.startDate, <<>>)

\* getZeroPoints: the loop from index i on (counted from 1)
RECURSIVE zeroLoop(_, _, _, _)
zeroLoop(pth, i, start, accZero) ==
    IF i > Len(pth) THEN accZero
    ELSE LET added == start + pth[i].x
             point(type) == [count |-> i - 1, x |-> pth[i].x, date |-> added,
                             value |-> pth[i].y, type |-> type]
         IN  zeroLoop(pth, i + 1, added,
                IF less(Number(0), pth[i].y) /\ less(pth[i - 1].y, Number(0))
                THEN Append(accZero, point("positive"))
                ELSE IF less(pth[i].y, Number(0)) /\ less(Number(0), pth[i - 1].y)
                THEN Append(accZero, point("negative"))
                ELSE accZero)

getZeroPoints(pth, bnd) == zeroLoop(pth, 3, bnd.startDate, <<>>)

getInflectionZeroPoints(pth, bnd) ==
    [inflectionPts |-> getInflectionPoints(pth, bnd),
     zeroPts |-> getZeroPoints(pth, bnd)]

\* generatePath(bounds, gatheredTransactions) once gathered is known.  For an
\* empty list keyPoints is an empty array: it has neither list.
generatePath(gathered, bnd) ==
    IF Len(gathered) = 0
    THEN [path |-> <<>>, keyPoints |-> [inflectionPts |-> <<>>, zeroPts |-> <<>>]]
    ELSE LET transactions == pathOf(gathered, bnd)
         IN  [path |-> transactions,
              keyPoints |-> getInflectionZeroPoints(transactions, bnd)]

-----------------------------------------------------------------------------
(* SpecExpand: one standalone definition, expanded over a bounds window *)

ExpandAmounts == {0, 1, 100}
ExpandGrowths == {null, Number(10), Number(100), Number(-50)}

\* the ranges of the definitions that do not grow: long
ExpandPlain ==
    { Blob("", Number(1), null, f, s, e) :
        f \in Frequencies, s \in 0..MaxStart, e \in {NullDate} \cup 0..MaxSpan }

\* the ranges of the definitions that grow: short
ExpandGrowing ==
    { Blob("", Number(a), g, f, s, e) :
        a \in ExpandAmounts, g \in ExpandGrowths, f \in {"day", "none"},
        s \in 0..1, e \in {NullDate} \cup 0..MaxGrowSpan }

InitExpand ==
    /\ \E blob \in ExpandPlain \cup ExpandGrowing :
         txns = <<Transaction(blob, 1)>>
    /\ \E e \in 0..MaxSpan :
         /\ (txns[1].growth # null \/ txns[1].amount # Number(1)) => e <= MaxGrowSpan
         /\ (txns[1].endDate # NullDate) => e = 0
         /\ bounds = <<[startDate |-> 0, endDate |-> e]>>
    /\ scenarios = <<>>
    /\ path = <<>>
    /\ ret = NoRet

\* txn.initRepeatTransactions(txn, bounds)
Expand ==
    LET r == initRepeatTransactions(txns, 1, BoundsAt(bounds, 1))
    IN  /\ txns' = r.h
        /\ ret' = [op |-> "initRepeatTransactions", single |-> r.single,
                   txns |-> r.txns]
        /\ UNCHANGED <<bounds, scenarios, path>>

\* txn.growth = 0, the assignment an editor of the definition makes
ClearGrowth ==
    /\ txns[1].growth # Number(0)
    /\ txns' = [txns EXCEPT ![1].growth = Number(0)]
    /\ ret' = NoRet
    /\ UNCHANGED <<bounds, scenarios, path>>

NextExpand == Expand \/ ClearGrowth

SpecExpand == InitExpand /\ [][NextExpand]_vars

-----------------------------------------------------------------------------
(* Spec: a tree built with addChild and addChildren, gathered, valued and    *)
(* turned into a path over one Bounds object                                 *)

Days == 0..MaxDay

\* new Transaction(): the container a tree starts from
Container == Blob("", null, null, "none", NullDate, NullDate)

OneTimeBlobs ==
    { Blob("", Number(a), null, "none", d, NullDate) : a \in {1, 2}, d \in Days }

DailyBlobs ==
    { Blob("", Number(1), null, "day", s, e) :
        s \in {0, 1}, e \in {NullDate, MaxDay - 1} }

TreeBlobs == OneTimeBlobs \cup DailyBlobs

\* definitions with a nested children array, and flat lists of two
NestedBlobs ==
    { <<[a EXCEPT !.children = <<b>>]>> : a \in OneTimeBlobs, b \in TreeBlobs }
    \cup { <<a, b>> : a \in DailyBlobs, b \in OneTimeBlobs }

Init ==
    /\ txns = <<Transaction(Container, 1)>>
    /\ \E e \in Days : bounds = <<[startDate |-> 0, endDate |-> e]>>
    /\ scenarios = <<>>
    /\ path = <<>>
    /\ ret = NoRet

\* txns[p].addChild(blob)
AddChild(p, blob) ==
    /\ Len(txns) < MaxNodes
    /\ txns' = addChild(txns, p, blob)
    /\ ret' = NoRet
    /\ UNCHANGED <<bounds, scenarios, path>>

\* txns[p].addChildren(blobs)
AddChildren(p, blobs) ==
    /\ Len(txns) + blobCount(blobs) <= MaxNodes
    /\ txns' = addChildren(txns, p, blobs)
    /\ ret' = NoRet
    /\ UNCHANGED <<bounds, scenarios, path>>

\* root.gatherTransactions(bounds[b])
GatherTransactions(b) ==
    LET g == gatherTransactions(txns, 1, BoundsAt(bounds, b))
    IN  /\ txns' = g.h
        /\ ret' = [op |-> "gatherTransactions", kind |-> g.ret.kind,
                   txns |-> g.ret.txns]
        /\ UNCHANGED <<bounds, scenarios, path>>

\* root.valueOnDate(date, bounds[b]): line 414 sets bounds.endDate in place
ValueOnDate(date, b) ==
    /\ bounds' = [bounds EXCEPT ![b].endDate = date]
    /\ LET r == valueOnDate(txns, 1, BoundsAt(bounds', b))
       IN  /\ txns' = r.h
           /\ ret' = [op |-> "valueOnDate", date |-> date, value |-> r.value]
    /\ UNCHANGED <<scenarios, path>>

\* root.generatePath(bounds[b]) of a root with children (handed the
\* transaction itself, the floater case, lodash walks its property values)
GeneratePath(b) ==
    /\ Len(txns[1].children) > 0
    /\ LET g == gatherTransactions(txns, 1, BoundsAt(bounds, b))
           r == generatePath(g.ret.txns, BoundsAt(bounds, b))
       IN  /\ txns' = g.h
           /\ ret' = [op |-> "generatePath", path |-> r.path,
                      keyPoints |-> r.keyPoints]
    /\ UNCHANGED <<bounds, scenarios, path>>

Next ==
    \/ \E p \in 1..Len(txns), blob \in TreeBlobs : AddChild(p, blob)
    \/ \E p \in 1..Len(txns), blobs \in NestedBlobs : AddChildren(p, blobs)
    \/ \E b \in 1..Len(bounds) : GatherTransactions(b)
    \/ \E b \in 1..Len(bounds), date \in Days : ValueOnDate(date, b)
    \/ \E b \in 1..Len(bounds) : GeneratePath(b)

Spec == Init /\ [][Next]_vars

-----------------------------------------------------------------------------
(* Claims about the tree, checked under Spec *)

\* the nodes below the root: no operation of Spec detaches a node
Nodes == 2..Len(txns)
Leaves == { id \in Nodes : Len(txns[id].children) = 0 }

\* what the expansion of leaf id put into the gathered list
expansionOf(id) ==
    IF txns[id].frequency = "none"
    THEN <<Occurrence(id, txns[id].series, txns[id].startDate, txns[id].amount)>>
    ELSE txns[id].transactionSeries.txns

\* C1: a gather pass started at a root with children returns exactly the
\* expanded occurrences of the tree's leaf nodes, each leaf's occurrences
\* once, for trees of any depth: no occurrence of a node that has children
\* is in the result and no leaf's occurrences are missing.
C1_GatherReturnsLeaves ==
    (ret.op = "gatherTransactions" /\ Len(txns[1].children) > 0) =>
        /\ \A i \in 1..Len(ret.txns) : ret.txns[i].txn \in Leaves
        /\ \A id \in Leaves :
              SelectSeq(ret.txns, LAMBDA t : t.txn = id) = expansionOf(id)

\* the amount of a node resolved from its leaves
RECURSIVE resolvedAmount(_)
RECURSIVE resolvedAmounts(_)
resolvedAmounts(ids) ==
    IF ids = <<>> THEN Number(0)
    ELSE plus(resolvedAmount(Head(ids)), resolvedAmounts(Tail(ids)))

resolvedAmount(id) ==
    IF Len(txns[id].children) = 0 THEN toNumber(txns[id].amount)
    ELSE resolvedAmounts(txns[id].children)

\* C2: after any sequence of addChild and addChildren calls every node that
\* has children holds a stored amount equal to the sum of its children's
\* resolved amounts, up to the root, with no call of getAmount in between.
C2_StoredAmountIsSumOfChildren ==
    \A id \in 1..Len(txns) :
        Len(txns[id].children) > 0 =>
            toNumber(txns[id].amount) = resolvedAmounts(txns[id].children)

\* the amounts of the occurrences of leaf id dated on or before date: a
\* one-time transaction once, on its startDate; a recurring definition from
\* its startDate to its endDate
amountsThrough(id, date) ==
    LET txn == txns[id]
        end == IF txn.endDate # NullDate /\ txn.endDate < date
               THEN txn.endDate ELSE date
    IN  IF txn.frequency = "none"
        THEN (IF txn.startDate <= date THEN <<txn.amount>> ELSE <<>>)
        ELSE amounts(repeatTransactions(txn, id, end))

RECURSIVE valueThrough(_, _)
valueThrough(ids, date) ==
    IF ids = {} THEN Number(0)
    ELSE LET id == CHOOSE i \in ids : TRUE
         IN  plus(sum(amountsThrough(id, date)), valueThrough(ids \ {id}, date))

\* C4: valueOnDate(date, bounds) returns the sum of the amounts of exactly
\* those occurrences of the tree that are dated on or before date: a one-time
\* transaction dated after date, and the occurrences after date of a recurring
\* definition whose own endDate lies after date, contribute nothing.
C4_ValueOnDateCountsThroughDate ==
    (ret.op = "valueOnDate" /\ Len(txns[1].children) > 0) =>
        ret.value = valueThrough(Leaves, ret.date)

\* a step that is a gather pass on the root, right after a gather pass (of
\* gatherTransactions or of generatePath) with the same bounds
secondPass ==
    /\ ret.op \in {"gatherTransactions", "generatePath"}
    /\ ret'.op = "gatherTransactions"
    /\ bounds' = bounds
    /\ Len(txns[1].children) > 0

\* C15: gather passes do not leak scratch state into each other: after any
\* sequence of completed gatherTransactions, valueOnDate and generatePath
\* calls on the root, the accumulator of every node that is not the root is
\* empty, and a gather pass on the root that follows another one with the
\* same bounds and no change in between returns the occurrences the first
\* one gathered, in the same order.
C15_PassesDoNotLeak ==
    /\ [](\A id \in Nodes : txns[id].accumulator = <<>>)
    /\ [][secondPass =>
            /\ ret'.txns = txns[1].accumulator
            /\ ret.op = "gatherTransactions" => ret'.txns = ret.txns]_vars

\* a gather pass has gone through a branch: the occurrences of the leaf
\* below it were expanded, the branch's accumulator is empty again and the
\* root holds what the pass returned
C15_Witness ==
    /\ ret.op = "gatherTransactions"
    /\ ret.kind = "array"
    /\ ret.txns # <<>>
    /\ txns[1].accumulator = ret.txns
    /\ \E id \in Nodes :
          /\ Len(txns[id].children) > 0
          /\ txns[id].accumulator = <<>>
          /\ \E c \in Nodes :
                /\ txns[c].parentTransaction = id
                /\ txns[c].transactionSeries.set
                /\ Len(txns[c].transactionSeries.txns) > 1

-----------------------------------------------------------------------------
(* SpecCache: one recurring definition whose fields and bounds change        *)
(* between expansions                                                        *)

CacheDays == 0..MaxCacheDay
CacheAmounts == {Number(1), Number(2)}
CacheGrowths == {null, Number(100)}
CacheFrequencies == {"none", "day", "week"}

InitCache ==
    /\ \E a \in CacheAmounts, f \in {"day", "week"}, s \in CacheDays :
         txns = <<Transaction(Blob("", a, null, f, s, NullDate), 1)>>
    /\ \E e1 \in CacheDays, e2 \in CacheDays :
         bounds = <<[startDate |-> 0, endDate |-> e1],
                    [startDate |-> 0, endDate |-> e2]>>
    /\ scenarios = <<>>
    /\ path = <<>>
    /\ ret = NoRet

\* txn.initRepeatTransactions(txn, bounds[b])
InitRepeatTransactions(b) ==
    LET r == initRepeatTransactions(txns, 1, BoundsAt(bounds, b))
    IN  /\ txns' = r.h
        /\ ret' = [op |-> "initRepeatTransactions", bounds |-> b,
                   single |-> r.single, txns |-> r.txns]
        /\ UNCHANGED <<bounds, scenarios, path>>

\* txn.setAmount(amount) on the childless definition
SetAmount(amount) ==
    /\ txns' = setAmount(txns, 1, amount)
    /\ ret' = NoRet
    /\ UNCHANGED <<bounds, scenarios, path>>

\* txn.growth = growth
SetGrowth(growth) ==
    /\ txns' = [txns EXCEPT ![1].growth = growth]
    /\ ret' = NoRet
    /\ UNCHANGED <<bounds, scenarios, path>>

\* txn.frequency = frequency
SetFrequency(frequency) ==
    /\ txns' = [txns EXCEPT ![1].frequency = frequency]
    /\ ret' = NoRet
    /\ UNCHANGED <<bounds, scenarios, path>>

\* txn.startDate = new Date(day)
SetStartDate(day) ==
    /\ txns' = [txns EXCEPT ![1].startDate = day]
    /\ ret' = NoRet
    /\ UNCHANGED <<bounds, scenarios, path>>

\* txn.endDate = new Date(day), or null
SetEndDate(day) ==
    /\ txns' = [txns EXCEPT ![1].endDate = day]
    /\ ret' = NoRet
    /\ UNCHANGED <<bounds, scenarios, path>>

\* bounds[b].endDate = day on the same Bounds object, as line 414 does
SetBoundsEndDate(b, day) ==
    /\ bounds' = [bounds EXCEPT ![b].endDate = day]
    /\ ret' = NoRet
    /\ UNCHANGED <<txns, scenarios, path>>

NextCache ==
    \/ \E b \in 1..Len(bounds) : InitRepeatTransactions(b)
    \/ \E amount \in CacheAmounts : SetAmount(amount)
    \/ \E growth \in CacheGrowths : SetGrowth(growth)
    \/ \E frequency \in CacheFrequencies : SetFrequency(frequency)
    \/ \E day \in CacheDays : SetStartDate(day)
    \/ \E day \in CacheDays \cup {NullDate} : SetEndDate(day)
    \/ \E b \in 1..Len(bounds), day \in CacheDays : SetBoundsEndDate(b, day)

SpecCache == InitCache /\ [][NextCache]_vars

\* the expansion of the definition computed afresh from its fields and from
\* bounds[b] as they are now
uncached(b) ==
    IF txns[1].frequency = "none"
    THEN <<Occurrence(1, txns[1].series, txns[1].startDate, txns[1].amount)>>
    ELSE repeatTransactions(txns[1], 1, expansionEnd(txns[1], BoundsAt(bounds, b)))

\* C3: the recurrence cache never changes observable output: for any sequence
\* of changes to the definition's amount, growth, frequency, startDate or
\* endDate and to the bounds (also to bounds.endDate on the same object),
\* every call of initRepeatTransactions returns the occurrence list (dates and
\* amounts) an uncached expansion of the current fields and bounds returns.
C3_CacheNeverChangesOutput ==
    ret.op = "initRepeatTransactions" => ret.txns = uncached(ret.bounds)

-----------------------------------------------------------------------------
(* SpecExpand claims *)

\* the range the definition is expanded over
expandStart == txns[1].startDate
expandEnd == expansionEnd(txns[1], BoundsAt(bounds, 1))

\* the period in days of the frequencies of fixed length
period(frequency) == IF frequency = "week" THEN 7 ELSE 14

C10_WeekAndBiweekCounts ==
    (/\ ret.op = "initRepeatTransactions"
     /\ txns[1].frequency \in {"week", "biweek"}
     /\ expandStart <= expandEnd) =>
        LET p == period(txns[1].frequency)
        IN  /\ Len(ret.txns) = ((expandEnd - expandStart) \div p) + 1
            /\ \A k \in 1..Len(ret.txns) :
                  ret.txns[k].startDate = expandStart + p * (k - 1)
            /\ (expandStart = 0 /\ expandEnd = 70) =>
                  Len(ret.txns) = IF p = 7 THEN 11 ELSE 6

\* a weekly definition expanded from day 0 to day 70: 11 occurrences
C10_Witness ==
    /\ ret.op = "initRepeatTransactions"
    /\ txns[1].frequency = "week"
    /\ expandStart = 0
    /\ expandEnd = 70
    /\ Len(ret.txns) = 11
    /\ ret.txns[11].startDate = 70

\* C11: every occurrence that initRepeatTransactions produces for a recurring
\* definition and a bounds window is dated on or after bounds.startDate and
\* on or before bounds.endDate, also when the definition's own endDate is
\* later than bounds.endDate, and the occurrences are in strictly increasing
\* date order.
C11_OccurrencesWithinBounds ==
    (ret.op = "initRepeatTransactions" /\ ~ret.single) =>
        /\ \A k \in 1..Len(ret.txns) :
              /\ bounds[1].startDate <= ret.txns[k].startDate
              /\ ret.txns[k].startDate <= bounds[1].endDate
        /\ \A k \in 2..Len(ret.txns) :
              ret.txns[k - 1].startDate < ret.txns[k].startDate

-----------------------------------------------------------------------------
(* SpecKeyPoints: the key point detector on a path of any shape *)

\* the path of the key point example: y = 0, 0, -3, 5, 5, -2, 0, 4
ExamplePath ==
    LET ys == <<0, 0, -3, 5, 5, -2, 0, 4>>
    IN  [i \in 1..Len(ys) |-> [x |-> i - 1, y |-> Number(ys[i])]]

\* the paths of up to MaxPathLen points, stride days apart
Paths ==
    { [i \in 1..n |-> [x |-> stride * (i - 1), y |-> Number(ys[i])]] :
        <<n, ys, stride>> \in
            { <<n, ys, stride>> \in
                (0..MaxPathLen) \X (UNION { [1..m -> -MaxY..MaxY] : m \in 0..MaxPathLen })
                    \X {1, 2} : Len(ys) = n } }

InitKeyPoints ==
    /\ txns = <<Transaction(Container, 1)>>
    /\ \E s \in 0..1 : bounds = <<[startDate |-> s, endDate |-> s + 2 * MaxPathLen]>>
    /\ scenarios = <<>>
    /\ path \in Paths \cup {ExamplePath}
    /\ ret = NoRet

\* root.getInflectionZeroPoints(path, bounds[1])
GetInflectionZeroPoints ==
    LET r == getInflectionZeroPoints(path, BoundsAt(bounds, 1))
    IN  /\ ret' = [op |-> "getInflectionZeroPoints",
                   inflectionPts |-> r.inflectionPts, zeroPts |-> r.zeroPts]
        /\ UNCHANGED <<txns, bounds, scenarios, path>>

NextKeyPoints == GetInflectionZeroPoints

SpecKeyPoints == InitKeyPoints /\ [][NextKeyPoints]_vars

\* the y value of point j of the path (j counts from 1)
y(j) == path[j].y

\* the sequence reached y(j) by rising: a lower value, then y(j) kept
risenTo(j) ==
    \E k \in 1..(j - 1) :
        less(y(k), y(j)) /\ \A m \in (k + 1)..j : y(m) = y(j)

fallenTo(j) ==
    \E k \in 1..(j - 1) :
        less(y(j), y(k)) /\ \A m \in (k + 1)..j : y(m) = y(j)

\* the points where the sequence turns downward after rising, and upward
\* after falling
turnsDown == { j \in 2..(Len(path) - 1) : less(y(j + 1), y(j)) /\ risenTo(j) }
turnsUp == { j \in 2..(Len(path) - 1) : less(y(j), y(j + 1)) /\ fallenTo(j) }

\* the points where the sign of y differs from the sign at the point before
flipsUp == { j \in 2..Len(path) : less(y(j - 1), Number(0)) /\ less(Number(0), y(j)) }
flipsDown == { j \in 2..Len(path) : less(Number(0), y(j - 1)) /\ less(y(j), Number(0)) }

\* the flagged points as pairs of index (from 0, as count) and type
flagged(points) == { <<points[i].count, points[i].type>> : i \in 1..Len(points) }

\* C8: for the path with y values [0,0,-3,5,5,-2,0,4], and for any path,
\* getInflectionZeroPoints flags a local max at the point where the sequence
\* turns downward after rising and a local min where it turns upward after
\* falling, and flags zero-crossings exactly at the indices where the sign of
\* y flips, 'positive' for a flip from negative to positive and 'negative'
\* for a flip from positive to negative.
C8_KeyPointsFlagged ==
    ret.op = "getInflectionZeroPoints" =>
        /\ flagged(ret.inflectionPts) =
              { <<j - 1, "max">> : j \in turnsDown } \cup { <<j - 1, "min">> : j \in turnsUp }
        /\ flagged(ret.zeroPts) =
              { <<j - 1, "positive">> : j \in flipsUp }
                  \cup { <<j - 1, "negative">> : j \in flipsDown }
        /\ path = ExamplePath => \E i \in 1..Len(ret.inflectionPts) :
                                    ret.inflectionPts[i].type = "max"

\* C12: every key point returned by getInflectionPoints and getZeroPoints
\* carries a date equal to bounds.startDate plus that point's own x days,
\* whatever the number and position of the path points scanned before it.
C12_KeyPointDates ==
    ret.op = "getInflectionZeroPoints" =>
        /\ \A i \in 1..Len(ret.inflectionPts) :
              ret.inflectionPts[i].date = bounds[1].startDate + ret.inflectionPts[i].x
        /\ \A i \in 1..Len(ret.zeroPts) :
              ret.zeroPts[i].date = bounds[1].startDate + ret.zeroPts[i].x

-----------------------------------------------------------------------------
(* SpecPath: the path of a tree of one-time transactions *)

PathBlobs ==
    { Blob("", Number(v), null, "none", d, NullDate) :
        v \in {50, -1, 0}, d \in 0..MaxPathDay }

InitPath ==
    /\ txns = <<Transaction(Container, 1)>>
    /\ \E n \in 0..MaxPathDay : bounds = <<[startDate |-> 0, endDate |-> n]>>
    /\ scenarios = <<>>
    /\ path = <<>>
    /\ ret = NoRet

NextPath ==
    \/ \E blob \in PathBlobs :
          Len(txns[1].children) < MaxPathTxns /\ AddChild(1, blob)
    \/ GeneratePath(1)

SpecPath == InitPath /\ [][NextPath]_vars

\* the tree holds a single one-time transaction, of value v on day d, and
\* generatePath has returned its path over [day 0, day n]
SinglePath(v, d, n) ==
    /\ ret.op = "generatePath"
    /\ Len(txns) = 2
    /\ txns[1].children = <<2>>
    /\ txns[2].frequency = "none"
    /\ toNumber(txns[2].amount) = Number(v)
    /\ txns[2].startDate = d
    /\ bounds[1].startDate = 0
    /\ bounds[1].endDate = n

\* the path starts at x = 0, is 0 before day d and v from day d through day
\* n, and has a point at x = n
StepPath(v, d, n) ==
    /\ Len(ret.path) > 0
    /\ ret.path[1].x = 0
    /\ \A i \in 1..Len(ret.path) :
          /\ ret.path[i].x < d => ret.path[i].y = Number(0)
          /\ (d <= ret.path[i].x /\ ret.path[i].x <= n) => ret.path[i].y = Number(v)
    /\ \E i \in 1..Len(ret.path) : ret.path[i].x = n

PathValues == {50, -1, 0}

\* C7 as stated: for a single one-time transaction of value v on day d within
\* bounds [day 0, day n] (0 <= d <= n), generatePath returns a path that
\* starts at x = 0, whose y is 0 at every point before day d and v at every
\* point from day d through day n, with a point at x = n.
C7_Original ==
    \A v \in PathValues, d \in 0..MaxPathDay, n \in 0..MaxPathDay :
        (SinglePath(v, d, n) /\ 0 <= d /\ d <= n) => StepPath(v, d, n)

\* C7 as amended: the same for 0 < d <= n.  (On d = 0 the path holds the
\* start point (x = 0, y = 0) before the point (x = 0, y = v).)
C7_StepPathAfterDayZero ==
    \A v \in PathValues, d \in 0..MaxPathDay, n \in 0..MaxPathDay :
        (SinglePath(v, d, n) /\ 0 < d /\ d <= n) => StepPath(v, d, n)

\* the instance v = 50, d = 5, n = 10, with the trailing pad point
C7_Witness ==
    /\ SinglePath(50, 5, 10)
    /\ Len(ret.path) = 3
    /\ ret.path[3].x = 10
    /\ ret.path[3].y = Number(50)

-----------------------------------------------------------------------------
(* Scenario *)

\* cloneTransaction(transaction = h[id], divorceParent, newSeries): the clone,
\* an object no tree holds yet
cloneTransaction(h, id, divorceParent, newSeries) ==
    LET transaction == h[id]
        clone == Transaction(
                    Blob(transaction.description, transaction.amount,
                         transaction.growth, transaction.frequency,
                         transaction.startDate, transaction.endDate),
                    generateUUID(h))
    IN  [clone EXCEPT
            !.parentTransaction = IF divorceParent THEN 0
                                  ELSE transaction.parentTransaction,
            !.series = IF newSeries THEN generateUUID(h) ELSE transaction.series]

\* a variant of setStartDates that leaves every startDate as it is
setStartDatesNever(transaction, startDate, setall) == transaction

\* setStartDates(transaction, startDate, setall) on a transaction without
\* children (with children the recursion passes null for transaction and
\* line 610 throws)
setStartDates(transaction, startDate, setall) ==
    IF transaction.startDate < startDate /\ setall
    THEN [transaction EXCEPT !.startDate = startDate]
    ELSE IF ~setall
    THEN [transaction EXCEPT !.startDate = startDate]
    ELSE transaction

\* cloneTransactionToScenario(transaction = h[id]) on scenario: the heap after
\* the call; the node it returns is the last one of that heap
cloneTransactionToScenario(h, scenario, id) ==
    LET clone == setStartDates(cloneTransaction(h, id, TRUE, FALSE),
                               scenario.startDate, TRUE)
    IN  addChild(h, scenario.transactions, clone)

\* lines 703-713: the Scenario constructor swaps the arguments of valueOnDate:
\* the Date initEndDate is the bounds and the object {startDate, endDate} the
\* date.  Line 414 stores that object as the endDate of the Date, and line
\* 326 makes a moment of it: none of its keys is a unit, so the moment is the
\* day the call runs on, now.  The Date is a new object at every call; its
\* identity is the negated rank of the scenario.
initialBounds(rank, now) == [ref |-> -rank, startDate |-> NullDate, endDate |-> now]

\* new Scenario(startDate, name, blob, baseTransaction) called by
\* addScenario(startDate, name) on node base: the heap after the call and the
\* scenario
addScenario(h, base, rank, startDate, now) ==
    LET h1 == Append(h, Transaction(
                    Blob("Scenario", null, null, "none", startDate, NullDate),
                    generateUUID(h)))
        root == Len(h1)
        v == valueOnDate(h1, base, initialBounds(rank, now))
        h2 == addChild(v.h, root,
                    Blob("Scenario Initial Amount", v.value, Number(0), "none",
                         startDate, NullDate))
    IN  [h |-> h2,
         scenario |-> [startDate |-> startDate, transactions |-> root,
                       baseTransaction |-> base]]

\* removeChild(childIdx) on node id (childIdx counts from 1 here; 0: not found)
removeChild(h, id, childIdx) ==
    IF childIdx > 0
    THEN [h EXCEPT ![id].children =
            SubSeq(@, 1, childIdx - 1) \o SubSeq(@, childIdx + 1, Len(@))]
    ELSE h

indexOf(children, id) ==
    IF \E i \in 1..Len(children) : children[i] = id
    THEN CHOOSE i \in 1..Len(children) : children[i] = id
    ELSE 0

\* commitSuicide() on node id
commitSuicide(h, id) ==
    IF h[id].parentTransaction # 0
    THEN removeChild(h, h[id].parentTransaction,
                     indexOf(h[h[id].parentTransaction].children, id))
    ELSE h

\* lines 762-765: the series ids of the scenario's own transactions
scenarioSeriesIDs(scenarioTransactions) ==
    { scenarioTransactions[i].series : i \in 1..Len(scenarioTransactions) }

\* a variant of keepBaseTransaction that does not look at the series
keepBaseTransactionOfAnySeries(t, scenario, seriesIDs) ==
    LET beforeTxn == t.startDate < scenario.startDate
        afterTxn == t.startDate >= scenario.startDate
    IN  beforeTxn \/ afterTxn

\* lines 767-772: the filter on the base tree's transactions
keepBaseTransaction(t, scenario, seriesIDs) ==
    LET beforeTxn == t.startDate < scenario.startDate
        afterTxn == t.startDate >= scenario.startDate
        series == t.series \in seriesIDs
    IN  beforeTxn \/ (afterTxn /\ ~series)

\* an array as uniq and .length read what the scenario tree's gather pass
\* returned: handed the transaction itself, which has no length, uniq finds
\* no series id and line 775 takes the empty array
asArray(g) == IF g.kind = "array" THEN g.txns ELSE <<>>

\* lines 766-775 of Scenario.gatherTransactions, own and base being what the
\* gather passes of the scenario tree and of the base tree came to.  Handed
\* the base root itself (a base tree without children), filter walks the
\* values of its properties and line 768 reads startDate of null: the call
\* throws.
reconcile(own, base, scenario) ==
    LET seriesIDs == scenarioSeriesIDs(asArray(own.ret))
        keep(t) == keepBaseTransaction(t, scenario, seriesIDs)
        uniqueBaseTransactions == SelectSeq(base.ret.txns, keep)
    IN  IF base.ret.kind # "array"
        THEN [h |-> base.h, ret |-> TypeError, own |-> own.ret, base |-> base.ret]
        ELSE [h |-> base.h,
              ret |-> [kind |-> "array",
                       txns |-> IF Len(asArray(own.ret)) > 0
                                THEN own.ret.txns \o uniqueBaseTransactions
                                ELSE <<>>],
              own |-> own.ret, base |-> base.ret]

\* lines 758-765 of Scenario.gatherTransactions, own being what the gather
\* pass of the scenario tree came to
afterOwnGather(own, scenario, bnd, scenarioOnly) ==
    IF scenarioOnly
    THEN [h |-> own.h, ret |-> own.ret, own |-> own.ret, base |-> Undefined]
    ELSE reconcile(own, gatherTransactions(own.h, scenario.baseTransaction, bnd),
                   scenario)

\* Scenario.gatherTransactions(bounds, scenarioOnly): the heap after the call,
\* what it returns, and what the two gather passes returned
scenarioGatherTransactions(h, scenario, bnd, scenarioOnly) ==
    afterOwnGather(gatherTransactions(h, scenario.transactions, bnd),
                   scenario, bnd, scenarioOnly)

\* lines 742-745 of Scenario.getValueOnDate, r being what
\* Scenario.gatherTransactions came to: the sum of the amounts gathered
sumOfGathered(r) ==
    [h |-> r.h,
     value |-> IF r.ret.kind = "array" THEN sum(amounts(r.ret.txns)) ELSE TypeError]

\* Scenario.getValueOnDate(bounds): the heap after the call and the value
scenarioGetValueOnDate(h, scenario, bnd) ==
    sumOfGathered(scenarioGatherTransactions(h, scenario, bnd, FALSE))

-----------------------------------------------------------------------------
(* SpecScenario: a base tree of transactions below its root, forked once *)

ScenarioBlobs ==
    { Blob("", Number(1), null, "none", d, NullDate) : d \in Days }
    \cup { Blob("", Number(2), null, "day", 0, NullDate) }

InitScenario ==
    /\ txns = <<Transaction(Container, 1)>>
    /\ bounds = <<[startDate |-> 0, endDate |-> MaxDay]>>
    /\ scenarios = <<>>
    /\ path = <<>>
    /\ ret = NoRet

\* the transactions of the base tree, below node 1
baseChildren == txns[1].children

\* root.addChild(blob) on the base tree
AddBaseChild(blob) ==
    /\ Len(baseChildren) < MaxBaseTxns
    /\ txns' = addChild(txns, 1, blob)
    /\ ret' = NoRet
    /\ UNCHANGED <<bounds, scenarios, path>>

\* root.addScenario(startDate, name), on day now.  On a base tree without
\* children valueOnDate throws inside the constructor and no scenario is
\* pushed.
AddScenario(startDate, now) ==
    /\ Len(scenarios) < 1
    /\ Len(baseChildren) > 0
    /\ LET r == addScenario(txns, 1, Len(scenarios) + 1, startDate, now)
       IN  /\ txns' = r.h
           /\ scenarios' = Append(scenarios, r.scenario)
           /\ ret' = [op |-> "addScenario", scenario |-> Len(scenarios) + 1]
    /\ UNCHANGED <<bounds, path>>

\* scenarios[s].cloneTransactionToScenario(txns[id]) of a base transaction
CloneTransactionToScenario(s, id) ==
    /\ scenarios[s].transactions # 0
    /\ Len(txns[scenarios[s].transactions].children) < 1 + MaxClones
    /\ Len(txns) < MaxObjects
    /\ txns' = cloneTransactionToScenario(txns, scenarios[s], id)
    /\ ret' = [op |-> "cloneTransactionToScenario", scenario |-> s,
               transaction |-> id, node |-> Len(txns')]
    /\ UNCHANGED <<bounds, scenarios, path>>

\* scenarios[s].removeTransactionFromScenario(txns[id]) of a transaction of
\* the scenario tree, or of its root
RemoveTransactionFromScenario(s, id) ==
    /\ scenarios[s].transactions # 0
    /\ IF txns[id].parentTransaction # 0
       THEN /\ txns' = commitSuicide(txns, id)
            /\ UNCHANGED scenarios
       ELSE /\ scenarios' = [scenarios EXCEPT ![s].transactions = 0]
            /\ UNCHANGED txns
    /\ ret' = NoRet
    /\ UNCHANGED <<bounds, path>>

\* the state a call of scenarios[s].gatherTransactions leaves, r being what
\* Scenario.gatherTransactions came to
Returned(r, s, scenarioOnly) ==
    /\ txns' = r.h
    /\ ret' = [op |-> "Scenario.gatherTransactions", scenario |-> s,
               scenarioOnly |-> scenarioOnly, kind |-> r.ret.kind,
               txns |-> r.ret.txns, own |-> r.own, base |-> r.base]

\* scenarios[s].gatherTransactions(bounds[b], scenarioOnly); with transactions
\* null the call throws
ScenarioGatherTransactions(s, b, scenarioOnly) ==
    /\ scenarios[s].transactions # 0
    /\ Returned(scenarioGatherTransactions(txns, scenarios[s], BoundsAt(bounds, b),
                                           scenarioOnly),
                s, scenarioOnly)
    /\ UNCHANGED <<bounds, scenarios, path>>

\* the state a call of scenarios[s].getValueOnDate leaves, r being what
\* Scenario.getValueOnDate came to
ReturnedValue(r, s) ==
    /\ txns' = r.h
    /\ ret' = [op |-> "Scenario.getValueOnDate", scenario |-> s, value |-> r.value]

\* scenarios[s].getValueOnDate(bounds[b]); with transactions null the call
\* throws
ScenarioGetValueOnDate(s, b) ==
    /\ scenarios[s].transactions # 0
    /\ ReturnedValue(scenarioGetValueOnDate(txns, scenarios[s], BoundsAt(bounds, b)), s)
    /\ UNCHANGED <<bounds, scenarios, path>>

NextScenario ==
    \/ \E blob \in ScenarioBlobs : AddBaseChild(blob)
    \/ \E startDate \in Days, now \in Days : AddScenario(startDate, now)
    \/ \E s \in 1..Len(scenarios) :
          \E i \in 1..Len(baseChildren) : CloneTransactionToScenario(s, baseChildren[i])
    \/ \E s \in 1..Len(scenarios) :
          \E id \in { scenarios[s].transactions } \cup
                    { c \in 1..Len(txns) :
                        /\ scenarios[s].transactions # 0
                        /\ indexOf(txns[scenarios[s].transactions].children, c) > 0 } :
              RemoveTransactionFromScenario(s, id)
    \/ \E s \in 1..Len(scenarios), b \in 1..Len(bounds), scenarioOnly \in BOOLEAN :
          ScenarioGatherTransactions(s, b, scenarioOnly)
    \/ \E s \in 1..Len(scenarios), b \in 1..Len(bounds) : ScenarioGetValueOnDate(s, b)

SpecScenario == InitScenario /\ [][NextScenario]_vars

-----------------------------------------------------------------------------
(* Claims about scenarios, checked under SpecScenario *)

\* the occurrences the expansions of the leaves ids put into a gathered list
RECURSIVE expansionsOf(_)
expansionsOf(ids) ==
    IF ids = <<>> THEN <<>>
    ELSE expansionOf(Head(ids)) \o expansionsOf(Tail(ids))

\* the scenario the last call was made on
theScenario == scenarios[ret.scenario]
ownOccurrences == expansionsOf(txns[theScenario.transactions].children)
baseOccurrences == expansionsOf(baseChildren)
ownSeries == { ownOccurrences[i].series : i \in 1..Len(ownOccurrences) }

\* a base occurrence the merge is to keep
wanted(t) ==
    \/ t.startDate < theScenario.startDate
    \/ t.startDate >= theScenario.startDate /\ t.series \notin ownSeries

reconciled == ownOccurrences \o SelectSeq(baseOccurrences, wanted)

inResult(t) == \E i \in 1..Len(ret.txns) : ret.txns[i] = t

\* the transactions of the scenario tree that are clones of base transaction b
clonesOf(b) ==
    { c \in 1..Len(txns) :
        /\ indexOf(txns[theScenario.transactions].children, c) > 0
        /\ txns[c].series = txns[b].series }

\* C5 as stated: Scenario.gatherTransactions(bounds) with scenarioOnly false
\* returns the scenario's own occurrences followed by exactly the base
\* occurrences dated before the scenario's start date or dated on or after it
\* with a series id that no own occurrence has, whatever the two trees hold.
C5_Original ==
    (ret.op = "Scenario.gatherTransactions" /\ ~ret.scenarioOnly) =>
        /\ ret.kind = "array"
        /\ ret.txns = reconciled

\* C5, amended: when the scenario tree yields at least one occurrence of its
\* own, Scenario.gatherTransactions(bounds) with scenarioOnly false returns
\* the own occurrences followed by exactly the base occurrences dated before the scenario's start date or
\* dated on or after it with a series id that no own occurrence has: the base
\* occurrences of a series that was not cloned are all there, before and
\* after the fork, and those of a cloned series on or after the fork are not.
\* When the scenario tree yields no occurrence of its own, the result is the
\* empty array.
C5_ReconciledWhenScenarioHasOccurrences ==
    (ret.op = "Scenario.gatherTransactions" /\ ~ret.scenarioOnly) =>
        /\ ret.kind = "array"
        /\ ownOccurrences # <<>> =>
              /\ ret.txns = reconciled
              /\ \A i \in 1..Len(baseOccurrences) :
                    LET t == baseOccurrences[i]
                    IN  IF clonesOf(t.txn) = {}
                        THEN inResult(t)
                        ELSE t.startDate >= theScenario.startDate => ~inResult(t)
        /\ ownOccurrences = <<>> => ret.txns = <<>>

\* a merge after one base series was cloned into the scenario: the other
\* base series has occurrences before and after the fork, the cloned one has
\* occurrences on or after it
C5_Witness ==
    /\ ret.op = "Scenario.gatherTransactions"
    /\ ~ret.scenarioOnly
    /\ ret.kind = "array"
    /\ \E i, j, k \in 1..Len(baseOccurrences) :
          /\ clonesOf(baseOccurrences[i].txn) # {}
          /\ baseOccurrences[i].startDate >= theScenario.startDate
          /\ ~inResult(baseOccurrences[i])
          /\ clonesOf(baseOccurrences[j].txn) = {}
          /\ baseOccurrences[k].txn = baseOccurrences[j].txn
          /\ baseOccurrences[j].startDate < theScenario.startDate
          /\ baseOccurrences[k].startDate > theScenario.startDate
          /\ inResult(baseOccurrences[j])
          /\ inResult(baseOccurrences[k])

clonedTo(startOf(_, _)) ==
    ret'.op = "cloneTransactionToScenario" =>
        LET id == ret'.transaction
            node == ret'.node
            scenario == scenarios'[ret'.scenario]
            parent == txns[id].parentTransaction
        IN  /\ txns'[scenario.transactions].children
                  = Append(txns[scenario.transactions].children, node)
            /\ txns'[node].series = txns[id].series
            /\ txns'[node].startDate = startOf(txns[id].startDate, scenario.startDate)
            /\ txns'[id] = txns[id]
            /\ txns'[parent].children = txns[parent].children

forkDate(original, fork) == fork
laterOf(original, fork) == IF original < fork THEN fork ELSE original

freshlyForked ==
    LET children == txns[theScenario.transactions].children
    IN  /\ Len(children) = 1
        /\ txns[children[1]].description = "Scenario Initial Amount"

\* C14: for a freshly forked scenario into which no transaction has been
\* cloned, Scenario.getValueOnDate over bounds that end on or after the fork
\* date is the sum of the amounts of the base tree's gathered occurrences
\* over the same bounds: the balance accumulated before the fork is counted
\* once.
C14_ForkedValueIsBaseValue ==
    (/\ ret.op = "Scenario.getValueOnDate"
     /\ freshlyForked
     /\ bounds[1].endDate >= theScenario.startDate) =>
        ret.value = sum(amounts(baseOccurrences))

====
